---- MODULE Spec2Model ----
(***************************************************************************)
(* graphql-citadel: the directive enforcement engine of                    *)
(* src/src/citadelDirective.ts.  citadelDirective(options) builds a schema *)
(* transformer that replaces the resolve function of every query and       *)
(* mutation root field by a closure enforcing the field's policy           *)
(* (@public, @authenticated, @hasPermissions, deny by default).            *)
(*                                                                         *)
(* The model holds one engine configuration, a schema of one field         *)
(* declaration, the transformed schema, and a set of invocation slots:     *)
(* each slot is one call of the field's resolve function by the executor,  *)
(* suspended at its `await` until the injected resolver settles.           *)
(***************************************************************************)
EXTENDS Integers, Sequences, FiniteSets, TLC

\* Longest `permissions` argument of a @hasPermissions directive.
MaxRequired == 2
\* Longest permission list a permission resolver returns.
MaxGranted == 2
\* Longest lists of either kind in the concurrent specification.
MaxConcList == 1
\* Invocations in flight at once in the concurrent specification.
NumInvocations == 2

----------------------------------------------------------------------------
(* JavaScript values, as far as the engine looks at them. *)

Undefined == [kind |-> "undefined", s |-> "", elems |-> <<>>]
Bool(b) == [kind |-> "boolean", s |-> IF b THEN "true" ELSE "false", elems |-> <<>>]
Str(x) == [kind |-> "string", s |-> x, elems |-> <<>>]
Num(x) == [kind |-> "number", s |-> x, elems |-> <<>>]
Arr(xs) == [kind |-> "array", s |-> "", elems |-> xs]

\* ToBoolean: undefined, false, "" and 0 are falsy; arrays are truthy.
Truthy(v) ==
  CASE v.kind = "undefined" -> FALSE
    [] v.kind = "boolean" -> v.s = "true"
    [] v.kind = "string" -> v.s # ""
    [] v.kind = "number" -> v.s # "0"
    [] OTHER -> TRUE

\* a === b on primitives.
StrictEquals(a, b) == a.kind = b.kind /\ a.s = b.s

\* Array.prototype.find with the predicate (p) => p === rp: the first
\* element equal to rp, or undefined.
Find(xs, rp) ==
  LET hits == {k \in 1..Len(xs) : StrictEquals(xs[k], rp)}
  IN IF hits = {} THEN Undefined
     ELSE xs[CHOOSE k \in hits : \A j \in hits : k <= j]

SeqsUpTo(S, n) == UNION {[1..k -> S] : k \in 0..n}

\* Permission identifiers; the empty string is a string like any other.
Strings == {"", "ADMIN", "VIEWER"}
StringVals == {Str(x) : x \in Strings}
\* What a schema author can put in a permissions list.
ElementVals == StringVals \cup {Num("7")}

----------------------------------------------------------------------------
(* What the executor passes to a resolve function, and what comes back. *)

\* (source, args, context); info is not modelled.
NoInput == [source |-> "", args |-> "", context |-> ""]
Inputs == {[source |-> "s1", args |-> "a1", context |-> "c1"],
           [source |-> "s2", args |-> "a2", context |-> "c2"]}
OneInput == {[source |-> "s1", args |-> "a1", context |-> "c1"]}

\* The original resolve of the field: its result is a function of its inputs.
resolve(input) ==
  [kind |-> "value", code |-> "", message |-> "", data |-> input]

----------------------------------------------------------------------------
(* src/src/errors *)

FORBIDDEN == "FORBIDDEN"
UNAUTHENTICATED == "UNAUTHENTICATED"

\* new GraphQLError(message, {extensions: {code}})
GraphQLError(message, code) ==
  [kind |-> "GraphQLError", code |-> code, message |-> message, data |-> NoInput]

AuthenticationError(message) == GraphQLError(message, UNAUTHENTICATED)

ForbiddenError(message) == GraphQLError(message, FORBIDDEN)

\* new Error(message)
Error(message) ==
  [kind |-> "Error", code |-> "", message |-> message, data |-> NoInput]

\* The reason an injected resolver rejected with, passed on as it is.
Rejection(reason) ==
  [kind |-> "rejection", code |-> "", message |-> reason, data |-> NoInput]

NoOutcome == [kind |-> "none", code |-> "", message |-> "", data |-> NoInput]

----------------------------------------------------------------------------
(* getPermissions and its guards.  Each yields what it returns, or the     *)
(* Error it throws.                                                        *)

isStringArray(value) ==
  \A k \in 1..Len(value.elems) : value.elems[k].kind = "string"

\* isPermissionMethodArray taking an empty array for a missing argument.
isPermissionMethodArrayNonEmpty(value) ==
  IF ~Truthy(value) \/ (value.kind = "array" /\ Len(value.elems) = 0)
    THEN [throws |-> TRUE, returns |-> FALSE,
          error |-> Error("permissions argument is required to the directive")]
  ELSE IF value.kind # "array"
    THEN [throws |-> TRUE, returns |-> FALSE,
          error |-> Error("permissions argument should be an array of permissions")]
  ELSE [throws |-> FALSE, returns |-> isStringArray(value), error |-> NoOutcome]

isPermissionMethodArray(value) ==
  IF ~Truthy(value)
    THEN [throws |-> TRUE, returns |-> FALSE,
          error |-> Error("permissions argument is required to the directive")]
  ELSE IF value.kind # "array"
    THEN [throws |-> TRUE, returns |-> FALSE,
          error |-> Error("permissions argument should be an array of permissions")]
  ELSE [throws |-> FALSE, returns |-> isStringArray(value), error |-> NoOutcome]

\* getPermissions without the check of the elements.
getPermissionsUnchecked(directive) ==
  LET permissions == directive.permissions
      guard == isPermissionMethodArray(permissions)
  IN IF guard.throws
       THEN [throws |-> TRUE, returns |-> Undefined, error |-> guard.error]
     ELSE [throws |-> FALSE, returns |-> permissions, error |-> NoOutcome]

getPermissions(directive) ==
  LET permissions == directive.permissions
      guard == isPermissionMethodArray(permissions)
  IN IF guard.throws
       THEN [throws |-> TRUE, returns |-> Undefined, error |-> guard.error]
     ELSE IF ~guard.returns
       THEN [throws |-> TRUE, returns |-> Undefined,
             error |-> Error("invalid permissions type")]
     ELSE [throws |-> FALSE, returns |-> permissions, error |-> NoOutcome]

----------------------------------------------------------------------------
(* Configuration, schema and invocations. *)

VARIABLES
  bypass,                  \* options.bypass
  authenticationResolver,  \* TRUE iff options.authenticationResolver is given
  permissionResolver,      \* TRUE iff options.permissionResolver is given
  schema,                  \* the field declaration handed to the transformer
  transformed,             \* the field of the transformed schema, once built
  calls                    \* the invocations of the transformed field's resolve

vars == <<bypass, authenticationResolver, permissionResolver, schema,
          transformed, calls>>

defaultAuthenticatedDirectiveName == "authenticated"
defaultHasPermissionDirectiveName == "hasPermissions"
defaultPublicDirectiveName == "public"

\* The arguments object of a directive; a directive without arguments is {}.
EmptyArgs == [permissions |-> Undefined]
DirectiveArgs(v) == [permissions |-> v]

\* The permissions argument as a schema may carry it: missing, a bare
\* value, or a list of strings and non-strings.
PermissionArguments(n) ==
  {Undefined, Str("ADMIN")} \cup {Arr(xs) : xs \in SeqsUpTo(ElementVals, n)}

\* The @hasPermissions directive of a field: none, or one with its argument.
PermissionDirectives(n) ==
  {[found |-> FALSE, args |-> EmptyArgs]}
    \cup {[found |-> TRUE, args |-> DirectiveArgs(v)] : v \in PermissionArguments(n)}

\* A field of the schema: the type that owns it and its directives.
FieldTypes == {"Query", "Mutation", "Subscription", "Object"}
FieldConfigs(n) ==
  [type : FieldTypes, public : BOOLEAN, authenticated : BOOLEAN,
   hasPermissions : PermissionDirectives(n)]

\* getDirective(schema, fieldConfig, name)?.[0]: the arguments of the
\* field's first directive of that name, or undefined (found = FALSE).
getDirective(fieldConfig, name) ==
  CASE name = defaultPublicDirectiveName ->
         [found |-> fieldConfig.public, args |-> EmptyArgs]
    [] name = defaultAuthenticatedDirectiveName ->
         [found |-> fieldConfig.authenticated, args |-> EmptyArgs]
    [] name = defaultHasPermissionDirectiveName -> fieldConfig.hasPermissions
    [] OTHER -> [found |-> FALSE, args |-> EmptyArgs]

\* How an awaited promise settled.
Pending == [status |-> "pending", value |-> Undefined, reason |-> ""]
Fulfilled(v) == [status |-> "fulfilled", value |-> v, reason |-> ""]
Rejected(r) == [status |-> "rejected", value |-> Undefined, reason |-> r]
RejectReasons == {"timeout", "cancelled"}

\* AuthenticationResolverFunc: Promise<boolean>
AuthenticationResults ==
  {Fulfilled(Bool(b)) : b \in BOOLEAN} \cup {Rejected(r) : r \in RejectReasons}
\* PermissionResolverFunc: Promise<string[]>
PermissionResults(n) ==
  {Fulfilled(Arr(xs)) : xs \in SeqsUpTo(StringVals, n)}
    \cup {Rejected(r) : r \in RejectReasons}

\* One invocation: where it stands, its inputs, the closure's local
\* requiredPermissions, what its awaited promise settled with, its outcome
\* and the calls it has made so far.
Idle ==
  [pc |-> "idle", input |-> NoInput, requiredPermissions |-> Undefined,
   settled |-> Pending, outcome |-> NoOutcome, log |-> <<>>]

CallEntry(fn, input, directive) ==
  [fn |-> fn, input |-> input, directive |-> directive]

----------------------------------------------------------------------------
(* The resolve closures the field mapper f installs.  Each is split at its *)
(* await: the part run when the executor calls it, and the part run when   *)
(* the awaited promise has settled.                                        *)

Begin(input) == [Idle EXCEPT !.pc = "running", !.input = input]

\* return resolve(source, args, context, info)
CallOriginal(c) ==
  [c EXCEPT !.pc = "done", !.outcome = resolve(c.input),
            !.log = Append(@, CallEntry("resolve", c.input, EmptyArgs))]

\* A throw placed after the call of the original resolver.
ThrowAfterOriginal(c, e) ==
  [c EXCEPT !.pc = "done", !.outcome = e,
            !.log = Append(@, CallEntry("resolve", c.input, EmptyArgs))]

\* throw e
Throw(c, e) == [c EXCEPT !.pc = "done", !.outcome = e]

\* await fn({source, args, context, directive})
Await(c, pc, fn, directive) ==
  [c EXCEPT !.pc = pc, !.log = Append(@, CallEntry(fn, c.input, directive))]

\* The deny-by-default closure without its bypass test.
DenyByDefaultAlways(input, byp) ==
  Throw(Begin(input), ForbiddenError("not allowed to perform this action"))

\* Lines 228-239: the deny-by-default closure.
DenyByDefaultResolve(input, byp) ==
  IF byp THEN CallOriginal(Begin(input))
  ELSE Throw(Begin(input), ForbiddenError("not allowed to perform this action"))

\* The field's own resolve, left in place.
OriginalResolve(input) == CallOriginal(Begin(input))

\* An await that yields what another invocation's promise settled with, when
\* there is one (a resolver result kept across invocations).
AwaitedCached(cs, i, out) ==
  LET earlier == {j \in DOMAIN cs : j # i /\ cs[j].settled.status = out.status}
  IN IF earlier = {} THEN out
     ELSE cs[CHOOSE j \in earlier : \A k \in earlier : j <= k].settled
\* The value an await expression yields in invocation i: what this
\* invocation's own promise settled with.
Awaited(cs, i, out) == out

\* The authenticated closure skipping its resolver when bypass is on.
AuthenticatedEnterSkipOnBypass(input) ==
  IF bypass THEN OriginalResolve(input)
  ELSE Await(Begin(input), "awaitAuthentication", "authenticationResolver", EmptyArgs)

\* The authenticated closure handing its resolver the arguments of the
\* field's hasPermissions directive.
AuthenticatedEnterTagArguments(input) ==
  Await(Begin(input), "awaitAuthentication", "authenticationResolver",
        schema.hasPermissions.args)

\* Lines 152-158: the authenticated closure up to its await.
AuthenticatedEnter(input) ==
  Await(Begin(input), "awaitAuthentication", "authenticationResolver", EmptyArgs)

\* The authenticated closure throwing the wrong error.
AuthenticatedResumeForbidden(c, awaited, byp) ==
  IF awaited.status = "rejected" THEN Throw(c, Rejection(awaited.reason))
  ELSE LET authenticated == awaited.value
       IN IF Truthy(authenticated) THEN CallOriginal(c)
          ELSE IF byp THEN CallOriginal(c)
          ELSE Throw(c, ForbiddenError("unauthenticated or the user does not exist"))

\* Lines 158-175: the authenticated closure after its await.
AuthenticatedResume(c, awaited, byp) ==
  IF awaited.status = "rejected" THEN Throw(c, Rejection(awaited.reason))
  ELSE LET authenticated == awaited.value
       IN IF Truthy(authenticated) THEN CallOriginal(c)
          ELSE IF byp THEN CallOriginal(c)
          ELSE Throw(c, AuthenticationError("unauthenticated or the user does not exist"))

\* Lines 188-201: the hasPermissions closure up to its await.
HasPermissionsEnter(input, permissionDirective) ==
  LET got == getPermissions(permissionDirective)
  IN IF got.throws THEN Throw(Begin(input), got.error)
     ELSE Await([Begin(input) EXCEPT !.requiredPermissions = got.returns],
                "awaitPermissions", "permissionResolver", permissionDirective)

\* !requiredPermissions.every((rp) => permissions.find((p) => p === rp))
NotEvery(requiredPermissions, permissions) ==
  ~(\A k \in 1..Len(requiredPermissions.elems) :
       Truthy(Find(permissions.elems, requiredPermissions.elems[k])))

\* The hasPermissions closure catching its resolver's rejection and going
\* on with no permissions.
HasPermissionsResumeSwallow(c, awaited, byp) ==
  LET permissions == IF awaited.status = "rejected" THEN Arr(<<>>) ELSE awaited.value
      hasPermission == NotEvery(c.requiredPermissions, permissions)
  IN IF hasPermission
       THEN IF byp THEN CallOriginal(c)
            ELSE Throw(c, ForbiddenError(
              "user does not have enough permissions to act this request or the user does not exist"))
     ELSE CallOriginal(c)

\* The hasPermissions closure waiting for its resolver again when the
\* resolver rejected.
HasPermissionsResumeRetry(c, awaited, byp) ==
  IF awaited.status = "rejected" THEN c
  ELSE LET permissions == awaited.value
           hasPermission == NotEvery(c.requiredPermissions, permissions)
       IN IF hasPermission
            THEN IF byp THEN CallOriginal(c)
                 ELSE Throw(c, ForbiddenError(
                   "user does not have enough permissions to act this request or the user does not exist"))
          ELSE CallOriginal(c)

\* Lines 196-218: the hasPermissions closure after its await.
HasPermissionsResume(c, awaited, byp) ==
  IF awaited.status = "rejected" THEN Throw(c, Rejection(awaited.reason))
  ELSE LET permissions == awaited.value
           hasPermission == NotEvery(c.requiredPermissions, permissions)
       IN IF hasPermission
            THEN IF byp THEN CallOriginal(c)
                 ELSE Throw(c, ForbiddenError(
                   "user does not have enough permissions to act this request or the user does not exist"))
          ELSE CallOriginal(c)

----------------------------------------------------------------------------
(* The field mapper and the transformer. *)

Untransformed == [resolve |-> "none", permissionDirective |-> EmptyArgs]

\* f wrapping on the tag alone, whether or not its resolver is configured.
fTagAlone(authRes, permRes, fieldConfig) ==
  IF getDirective(fieldConfig, defaultPublicDirectiveName).found
    THEN [resolve |-> "original", permissionDirective |-> EmptyArgs]
  ELSE IF getDirective(fieldConfig, defaultAuthenticatedDirectiveName).found
    THEN [resolve |-> "authenticated", permissionDirective |-> EmptyArgs]
  ELSE IF getDirective(fieldConfig, defaultHasPermissionDirectiveName).found
    THEN [resolve |-> "hasPermissions",
          permissionDirective |->
            getDirective(fieldConfig, defaultHasPermissionDirectiveName).args]
  ELSE [resolve |-> "denyByDefault", permissionDirective |-> EmptyArgs]

\* f looking for the public tag after the authenticated tag.
fAuthenticatedFirst(authRes, permRes, fieldConfig) ==
  IF getDirective(fieldConfig, defaultAuthenticatedDirectiveName).found /\ authRes
    THEN [resolve |-> "authenticated", permissionDirective |-> EmptyArgs]
  ELSE IF getDirective(fieldConfig, defaultPublicDirectiveName).found
    THEN [resolve |-> "original", permissionDirective |-> EmptyArgs]
  ELSE IF getDirective(fieldConfig, defaultHasPermissionDirectiveName).found /\ permRes
    THEN [resolve |-> "hasPermissions",
          permissionDirective |->
            getDirective(fieldConfig, defaultHasPermissionDirectiveName).args]
  ELSE [resolve |-> "denyByDefault", permissionDirective |-> EmptyArgs]

\* f looking for the hasPermissions tag before the authenticated tag.
fPermissionsFirst(authRes, permRes, fieldConfig) ==
  IF getDirective(fieldConfig, defaultPublicDirectiveName).found
    THEN [resolve |-> "original", permissionDirective |-> EmptyArgs]
  ELSE IF getDirective(fieldConfig, defaultHasPermissionDirectiveName).found /\ permRes
    THEN [resolve |-> "hasPermissions",
          permissionDirective |->
            getDirective(fieldConfig, defaultHasPermissionDirectiveName).args]
  ELSE IF getDirective(fieldConfig, defaultAuthenticatedDirectiveName).found /\ authRes
    THEN [resolve |-> "authenticated", permissionDirective |-> EmptyArgs]
  ELSE [resolve |-> "denyByDefault", permissionDirective |-> EmptyArgs]

\* f(schema, authenticationResolver, permissionResolver, bypass)(fieldConfig):
\* the resolve of the returned field and the directive arguments it closes over.
f(authRes, permRes, fieldConfig) ==
  LET publicDirective == getDirective(fieldConfig, defaultPublicDirectiveName)
      authenticatedDirective ==
        getDirective(fieldConfig, defaultAuthenticatedDirectiveName)
      permissionDirective ==
        getDirective(fieldConfig, defaultHasPermissionDirectiveName)
  IN IF publicDirective.found
       THEN [resolve |-> "original", permissionDirective |-> EmptyArgs]
     ELSE IF authenticatedDirective.found /\ authRes
       THEN [resolve |-> "authenticated", permissionDirective |-> EmptyArgs]
     ELSE IF permissionDirective.found /\ permRes
       THEN [resolve |-> "hasPermissions",
             permissionDirective |-> permissionDirective.args]
     ELSE [resolve |-> "denyByDefault", permissionDirective |-> EmptyArgs]

\* A transformer mapping the fields of every type.
citadelDirectiveTransformerEveryField(authRes, permRes, fieldConfig) ==
  f(authRes, permRes, fieldConfig)

\* mapSchema with MapperKind.MUTATION_ROOT_FIELD and QUERY_ROOT_FIELD only.
MappedTypes == {"Mutation", "Query"}
citadelDirectiveTransformer(authRes, permRes, fieldConfig) ==
  IF fieldConfig.type \in MappedTypes
    THEN f(authRes, permRes, fieldConfig)
  ELSE [resolve |-> "original", permissionDirective |-> EmptyArgs]

----------------------------------------------------------------------------
(* Actions. *)

InitWith(n, maxRequired) ==
  /\ bypass \in BOOLEAN
  /\ authenticationResolver \in BOOLEAN
  /\ permissionResolver \in BOOLEAN
  /\ schema \in FieldConfigs(maxRequired)
  /\ transformed = Untransformed
  /\ calls = [i \in 1..n |-> Idle]

Config == <<bypass, authenticationResolver, permissionResolver, schema>>

\* schema = citadelDirectiveTransformer(schema)
Transform ==
  /\ transformed = Untransformed
  /\ transformed' =
       citadelDirectiveTransformer(authenticationResolver, permissionResolver, schema)
  /\ UNCHANGED <<Config, calls>>

\* The executor calls the field's resolve.
InvokeOriginal(i, input) ==
  /\ transformed.resolve = "original"
  /\ calls[i].pc = "idle"
  /\ calls' = [calls EXCEPT ![i] = OriginalResolve(input)]
  /\ UNCHANGED <<Config, transformed>>

InvokeAuthenticated(i, input) ==
  /\ transformed.resolve = "authenticated"
  /\ calls[i].pc = "idle"
  /\ calls' = [calls EXCEPT ![i] = AuthenticatedEnter(input)]
  /\ UNCHANGED <<Config, transformed>>

InvokeHasPermissions(i, input) ==
  /\ transformed.resolve = "hasPermissions"
  /\ calls[i].pc = "idle"
  /\ calls' = [calls EXCEPT ![i] =
                 HasPermissionsEnter(input, transformed.permissionDirective)]
  /\ UNCHANGED <<Config, transformed>>

InvokeDenyByDefault(i, input) ==
  /\ transformed.resolve = "denyByDefault"
  /\ calls[i].pc = "idle"
  /\ calls' = [calls EXCEPT ![i] = DenyByDefaultResolve(input, bypass)]
  /\ UNCHANGED <<Config, transformed>>

\* The authentication resolver's promise settles and the closure goes on.
AuthenticationSettles(i, out) ==
  /\ calls[i].pc = "awaitAuthentication"
  /\ calls' = [calls EXCEPT ![i] =
                 AuthenticatedResume([calls[i] EXCEPT !.settled = out],
                                     Awaited(calls, i, out), bypass)]
  /\ UNCHANGED <<Config, transformed>>

\* The permission resolver's promise settles and the closure goes on.
PermissionSettles(i, out) ==
  /\ calls[i].pc = "awaitPermissions"
  /\ calls' = [calls EXCEPT ![i] =
                 HasPermissionsResume([calls[i] EXCEPT !.settled = out],
                                      Awaited(calls, i, out), bypass)]
  /\ UNCHANGED <<Config, transformed>>

\* The executor has taken the outcome; the slot serves the next invocation.
Return(i) ==
  /\ calls[i].pc = "done"
  /\ calls' = [calls EXCEPT ![i] = Idle]
  /\ UNCHANGED <<Config, transformed>>

\* One invocation at a time, every schema and every resolver result.
Init == InitWith(1, MaxRequired)
Next ==
  \/ Transform
  \/ \E input \in Inputs : InvokeOriginal(1, input)
  \/ \E input \in Inputs : InvokeAuthenticated(1, input)
  \/ \E input \in Inputs : InvokeHasPermissions(1, input)
  \/ \E input \in Inputs : InvokeDenyByDefault(1, input)
  \/ \E out \in AuthenticationResults : AuthenticationSettles(1, out)
  \/ \E out \in PermissionResults(MaxGranted) : PermissionSettles(1, out)
  \/ Return(1)
Spec == Init /\ [][Next]_vars

\* Several invocations of the field in flight at once.
InitConc == InitWith(NumInvocations, MaxConcList)
NextConc ==
  \/ Transform
  \/ \E i \in 1..NumInvocations :
       \/ \E input \in OneInput : InvokeOriginal(i, input)
       \/ \E input \in OneInput : InvokeAuthenticated(i, input)
       \/ \E input \in OneInput : InvokeHasPermissions(i, input)
       \/ \E input \in OneInput : InvokeDenyByDefault(i, input)
       \/ \E out \in AuthenticationResults : AuthenticationSettles(i, out)
       \/ \E out \in PermissionResults(MaxConcList) : PermissionSettles(i, out)
       \/ Return(i)
SpecConc == InitConc /\ [][NextConc]_vars

\* One invocation at a time, where an injected resolver that is awaited
\* settles in the end.
SpecLive ==
  /\ Spec
  /\ WF_vars(\E out \in AuthenticationResults : AuthenticationSettles(1, out))
  /\ WF_vars(\E out \in PermissionResults(MaxGranted) : PermissionSettles(1, out))

----------------------------------------------------------------------------
(* Vocabulary of the properties. *)

Slots == DOMAIN calls
Done(i) == calls[i].pc = "done"
\* How often invocation i has called fn so far.
Count(i, fn) ==
  Cardinality({k \in 1..Len(calls[i].log) : calls[i].log[k].fn = fn})
OriginalInvoked(i) == Count(i, "resolve") >= 1
Fails(i, code) ==
  calls[i].outcome.kind = "GraphQLError" /\ calls[i].outcome.code = code
ConfigurationError(i) == calls[i].outcome.kind = "Error"
\* The original resolver was invoked once, with this invocation's inputs,
\* and its result is the outcome.
ReturnsOriginal(i) ==
  /\ Count(i, "resolve") = 1
  /\ \A k \in 1..Len(calls[i].log) :
       calls[i].log[k].fn = "resolve" => calls[i].log[k].input = calls[i].input
  /\ calls[i].outcome = resolve(calls[i].input)

\* A field of the query root or of the mutation root.
RootField == schema.type \in {"Query", "Mutation"}
TaggedPublic == schema.public
TaggedAuthenticated == schema.authenticated
TaggedHasPermissions == schema.hasPermissions.found
RequiredArgument == schema.hasPermissions.args.permissions
WellFormed(v) ==
  v.kind = "array" /\ \A k \in 1..Len(v.elems) : v.elems[k].kind = "string"
ElementsOf(v) == {v.elems[k] : k \in 1..Len(v.elems)}
\* Every element of the required list occurs in the granted list.
Contained(required, granted) == ElementsOf(required) \subseteq ElementsOf(granted)

\* The effective policy of the field, read off its tags and the configuration.
AuthenticatedPolicy ==
  RootField /\ ~TaggedPublic /\ TaggedAuthenticated /\ authenticationResolver
HasPermissionsPolicy ==
  /\ RootField /\ ~TaggedPublic /\ TaggedHasPermissions /\ permissionResolver
  /\ ~(TaggedAuthenticated /\ authenticationResolver)
DenyByDefaultPolicy ==
  /\ RootField /\ ~TaggedPublic
  /\ ~(TaggedAuthenticated /\ authenticationResolver)
  /\ ~(TaggedHasPermissions /\ permissionResolver)

Granted(i, xs) == calls[i].settled = Fulfilled(xs)
ResolvedTo(i, b) == calls[i].settled = Fulfilled(Bool(b))
ResolverRejected(i) == calls[i].settled.status = "rejected"

----------------------------------------------------------------------------
(* Properties. *)

\* C1: on the hasPermissions path with a well-formed required list R and
\* bypass off, for every granted list G the original resolver is invoked iff
\* every element of R occurs in G, and otherwise the invocation fails with
\* FORBIDDEN without invoking it.
C1_SubsetDecides ==
  (HasPermissionsPolicy /\ WellFormed(RequiredArgument) /\ ~bypass) =>
    \A i \in Slots :
      (Done(i) /\ calls[i].settled.status = "fulfilled") =>
        /\ OriginalInvoked(i) <=> Contained(RequiredArgument, calls[i].settled.value)
        /\ ~Contained(RequiredArgument, calls[i].settled.value) =>
             (Fails(i, FORBIDDEN) /\ ~OriginalInvoked(i))

\* C2: on the authenticated path, a resolver result of true makes the wrapped
\* resolver return the original resolver's result for the same inputs; a
\* result of false with bypass off fails with UNAUTHENTICATED and the
\* original resolver is not invoked.
C2_AuthenticatedDecides ==
  AuthenticatedPolicy =>
    \A i \in Slots :
      Done(i) =>
        /\ ResolvedTo(i, TRUE) => ReturnsOriginal(i)
        /\ (ResolvedTo(i, FALSE) /\ ~bypass) =>
             (Fails(i, UNAUTHENTICATED) /\ ~OriginalInvoked(i))

C2_Witness ==
  /\ AuthenticatedPolicy /\ ~bypass
  /\ \E i \in Slots : Done(i) /\ ResolvedTo(i, FALSE) /\ Fails(i, UNAUTHENTICATED)

\* C3 as stated: a root field carrying a hasPermissions tag with a malformed
\* permissions argument ends every invocation in a configuration error.
C3_Original ==
  (RootField /\ TaggedHasPermissions /\ ~WellFormed(RequiredArgument)) =>
    \A i \in Slots : Done(i) => ConfigurationError(i)

\* C3, amended: when the effective policy of the field is hasPermissions, a
\* malformed permissions argument ends every invocation in a configuration
\* error, whatever the bypass flag: no resolver is called, the original
\* resolver is not invoked, and the error is neither FORBIDDEN nor
\* UNAUTHENTICATED.
C3_MalformedOnPermissionPath ==
  (HasPermissionsPolicy /\ ~WellFormed(RequiredArgument)) =>
    \A i \in Slots :
      /\ calls[i].pc \in {"idle", "done"}
      /\ Done(i) =>
           /\ ConfigurationError(i)
           /\ calls[i].log = <<>>
           /\ ~Fails(i, FORBIDDEN) /\ ~Fails(i, UNAUTHENTICATED)

C3_Witness ==
  /\ HasPermissionsPolicy /\ bypass
  /\ RequiredArgument.kind = "array" /\ ~WellFormed(RequiredArgument)
  /\ \E i \in Slots : Done(i) /\ ConfigurationError(i)

\* C4: deny by default.  A root field that is not public and has neither an
\* authenticated tag with its resolver nor a hasPermissions tag with its
\* resolver fails every invocation with FORBIDDEN when bypass is off, and
\* calls neither an injected resolver nor the original resolver.
C4_DenyByDefault ==
  (DenyByDefaultPolicy /\ ~bypass) =>
    \A i \in Slots :
      /\ calls[i].pc \in {"idle", "done"}
      /\ calls[i].log = <<>>
      /\ Done(i) => Fails(i, FORBIDDEN)

C4_Witness ==
  /\ DenyByDefaultPolicy /\ ~bypass
  /\ TaggedAuthenticated /\ ~authenticationResolver
  /\ \E i \in Slots : Done(i) /\ Fails(i, FORBIDDEN)

\* C5: with bypass on, an invocation whose authentication resolver resolved
\* false, or whose granted list lacks a required permission, or that runs
\* the deny-by-default path, returns the original resolver's result (invoked
\* once) and raises neither UNAUTHENTICATED nor FORBIDDEN.
C5_Blocked(i) ==
  \/ AuthenticatedPolicy /\ ResolvedTo(i, FALSE)
  \/ /\ HasPermissionsPolicy /\ WellFormed(RequiredArgument)
     /\ calls[i].settled.status = "fulfilled"
     /\ ~Contained(RequiredArgument, calls[i].settled.value)
  \/ DenyByDefaultPolicy
C5_BypassInvokesOriginal ==
  bypass =>
    \A i \in Slots :
      (Done(i) /\ C5_Blocked(i)) =>
        /\ ReturnsOriginal(i)
        /\ ~Fails(i, UNAUTHENTICATED) /\ ~Fails(i, FORBIDDEN)

C5_Witness ==
  /\ bypass /\ HasPermissionsPolicy /\ WellFormed(RequiredArgument)
  /\ \E i \in Slots :
       /\ Done(i) /\ calls[i].settled.status = "fulfilled"
       /\ ~Contained(RequiredArgument, calls[i].settled.value)
       /\ ReturnsOriginal(i)

\* C6: a field tagged public, whatever else it carries and whatever the
\* configuration, resolves as the original does: every invocation invokes the
\* original resolver once with the same inputs and returns its result, no
\* injected resolver is called and no error is raised.
C6_PublicUnchanged ==
  TaggedPublic =>
    \A i \in Slots :
      /\ calls[i].pc \in {"idle", "done"}
      /\ Done(i) => (ReturnsOriginal(i) /\ Len(calls[i].log) = 1)

C6_Witness ==
  /\ TaggedPublic /\ RootField /\ ~bypass
  /\ TaggedAuthenticated /\ authenticationResolver
  /\ TaggedHasPermissions /\ permissionResolver /\ ~WellFormed(RequiredArgument)
  /\ \E i \in Slots : Done(i) /\ ReturnsOriginal(i)

\* C7: one policy is enforced per root field, in the order public >
\* authenticated > hasPermissions > deny-by-default.  An invocation calls at
\* most one injected resolver; a field whose authenticated tag applies is
\* decided by the authentication resolver alone (the permission resolver is
\* never called, the permissions argument raises no error, FORBIDDEN is never
\* raised), also when it carries a hasPermissions tag.
C7_DecidedByAuthentication(i) ==
  /\ Count(i, "authenticationResolver") = 1
  /\ ResolvedTo(i, TRUE) => ReturnsOriginal(i)
  /\ ResolvedTo(i, FALSE) =>
       IF bypass THEN ReturnsOriginal(i) ELSE Fails(i, UNAUTHENTICATED)
C8_Original ==
  \A i \in Slots :
    Done(i) =>
      /\ (RootField /\ TaggedAuthenticated /\ authenticationResolver) =>
           Count(i, "authenticationResolver") = 1
      /\ (RootField /\ TaggedHasPermissions /\ permissionResolver) =>
           Count(i, "permissionResolver") = 1

\* C8, amended: an invocation of a field whose effective policy is
\* authenticated calls the authentication resolver exactly once, and an
\* invocation of a field whose effective policy is hasPermissions and whose
\* permissions argument is well-formed calls the permission resolver exactly
\* once, for both values of bypass.
C8_ResolverCalledOnce ==
  \A i \in Slots :
    calls[i].pc # "idle" =>
      /\ AuthenticatedPolicy => Count(i, "authenticationResolver") = 1
      /\ (HasPermissionsPolicy /\ WellFormed(RequiredArgument)) =>
           Count(i, "permissionResolver") = 1

C8_Witness ==
  /\ bypass /\ AuthenticatedPolicy
  /\ \E i \in Slots :
       Done(i) /\ ResolvedTo(i, FALSE) /\ Count(i, "authenticationResolver") = 1

\* C9: when the injected resolver of an invocation rejects, the invocation
\* fails with that rejection as it is, the resolver having been called once,
\* and the original resolver is not invoked, for both values of bypass.
C9_RejectionPropagates ==
  \A i \in Slots :
    (Done(i) /\ ResolverRejected(i)) =>
      /\ calls[i].outcome = Rejection(calls[i].settled.reason)
      /\ ~OriginalInvoked(i)
      /\ Count(i, "authenticationResolver") + Count(i, "permissionResolver") = 1

C9_Witness ==
  /\ bypass /\ HasPermissionsPolicy
  /\ \E i \in Slots :
       Done(i) /\ ResolverRejected(i) /\ calls[i].outcome.kind = "rejection"

\* The invocation run on its own: the closure the transformer installs for
\* the field, entered with these inputs and resumed with this resolver result.
RunAlone(fieldConfig, authRes, permRes, byp, input, out) ==
  LET t == citadelDirectiveTransformer(authRes, permRes, fieldConfig)
      entered ==
        CASE t.resolve = "original" -> OriginalResolve(input)
          [] t.resolve = "authenticated" -> AuthenticatedEnter(input)
          [] t.resolve = "hasPermissions" ->
               HasPermissionsEnter(input, t.permissionDirective)
          [] OTHER -> DenyByDefaultResolve(input, byp)
      settled == [entered EXCEPT !.settled = out]
  IN CASE entered.pc = "awaitAuthentication" -> AuthenticatedResume(settled, out, byp)
       [] entered.pc = "awaitPermissions" -> HasPermissionsResume(settled, out, byp)
       [] OTHER -> entered

C11_Blocked(i) ==
  Fails(i, UNAUTHENTICATED) \/ Fails(i, FORBIDDEN) \/ ConfigurationError(i)
C11_OriginalLastAndOnce ==
  \A i \in Slots :
    /\ Count(i, "resolve") <= 1
    /\ ((AuthenticatedPolicy \/ HasPermissionsPolicy) /\ OriginalInvoked(i)) =>
         /\ calls[i].settled.status = "fulfilled"
         /\ Len(calls[i].log) = 2
         /\ calls[i].log[1].fn =
              (IF AuthenticatedPolicy THEN "authenticationResolver"
               ELSE "permissionResolver")
         /\ calls[i].log[2].fn = "resolve"
    /\ C11_Blocked(i) => ~OriginalInvoked(i)

C11_Witness ==
  /\ HasPermissionsPolicy /\ ~bypass
  /\ \E i \in Slots :
       /\ Done(i) /\ Fails(i, FORBIDDEN) /\ ~OriginalInvoked(i)
       /\ Count(i, "permissionResolver") = 1

\* C12: every call an invocation makes, of an injected resolver or of the
\* original resolver, carries the invocation's source, arguments and context
\* as the executor passed them; the authentication resolver is called with
\* the empty directive arguments {}, the permission resolver with the
\* arguments of the field's hasPermissions tag.
C12_ArgumentsPassedThrough ==
  \A i \in Slots :
    \A k \in 1..Len(calls[i].log) :
      /\ calls[i].log[k].input = calls[i].input
      /\ calls[i].input \in Inputs
      /\ calls[i].log[k].fn = "authenticationResolver" =>
           calls[i].log[k].directive = EmptyArgs
      /\ calls[i].log[k].fn = "permissionResolver" =>
           /\ TaggedHasPermissions
           /\ calls[i].log[k].directive = schema.hasPermissions.args

C12_Witness ==
  /\ AuthenticatedPolicy /\ TaggedHasPermissions
  /\ WellFormed(RequiredArgument) /\ Len(RequiredArgument.elems) = 2
  /\ \E i \in Slots :
       /\ Done(i) /\ ReturnsOriginal(i)
       /\ calls[i].log[1] =
            CallEntry("authenticationResolver", calls[i].input, EmptyArgs)

\* C13: the transformer rewrites only the fields of the query root and of
\* the mutation root.  A field of the subscription root or of a nested object
\* type keeps its original resolution whatever its tags and the
\* configuration: every invocation invokes the original resolver once and
\* returns its result, no injected resolver is called and nothing is denied,
\* also for an untagged field with bypass off.
C13_OnlyRootFieldsRewritten ==
  /\ transformed.resolve \in {"authenticated", "hasPermissions", "denyByDefault"}
       => RootField
  /\ ~RootField =>
       \A i \in Slots :
         /\ calls[i].pc \in {"idle", "done"}
         /\ Done(i) => (ReturnsOriginal(i) /\ Len(calls[i].log) = 1)

C13_Witness ==
  /\ schema.type = "Subscription" /\ ~bypass
  /\ ~TaggedPublic /\ ~TaggedAuthenticated /\ ~TaggedHasPermissions
  /\ \E i \in Slots : Done(i) /\ ReturnsOriginal(i)

\* C14: on the hasPermissions path with the empty list as permissions
\* argument no configuration error is raised, the permission resolver is
\* called, and once it has returned a list, whichever it is, the invocation
\* returns the original resolver's result, whatever the bypass flag.
C14_EmptyRequiredList ==
  (HasPermissionsPolicy /\ RequiredArgument = Arr(<<>>)) =>
    \A i \in Slots :
      /\ ~ConfigurationError(i)
      /\ calls[i].pc # "idle" => Count(i, "permissionResolver") = 1
      /\ (Done(i) /\ calls[i].settled.status = "fulfilled") => ReturnsOriginal(i)

C14_Witness ==
  /\ HasPermissionsPolicy /\ RequiredArgument = Arr(<<>>) /\ ~bypass
  /\ \E i \in Slots : Done(i) /\ Granted(i, Arr(<<>>)) /\ ReturnsOriginal(i)

\* C15: an invocation that has been started completes, given that the
\* injected resolver it awaits settles: it ends with exactly one outcome (the
\* original resolver's result, UNAUTHENTICATED, FORBIDDEN, a configuration
\* error or the resolver's rejection), which then stays as it is; on the way
\* it awaits at most one injected resolver, once.
C15_Outcomes ==
  {k \in [kind : {"value", "GraphQLError", "Error", "rejection"},
          code : {"", FORBIDDEN, UNAUTHENTICATED}] :
     (k.kind = "GraphQLError") <=> (k.code # "")}
C15_OneOutcome ==
  /\ calls[1].pc \in {"idle", "awaitAuthentication", "awaitPermissions", "done"}
  /\ Count(1, "authenticationResolver") + Count(1, "permissionResolver") <= 1
  /\ IF Done(1)
       THEN [kind |-> calls[1].outcome.kind, code |-> calls[1].outcome.code]
              \in C15_Outcomes
     ELSE calls[1].outcome = NoOutcome
C15_Completes ==
  /\ []C15_OneOutcome
  /\ [][Done(1) => calls'[1] \in {calls[1], Idle}]_vars
  /\ (calls[1].pc \in {"awaitAuthentication", "awaitPermissions"}) ~> Done(1)

C15_Witness ==
  /\ HasPermissionsPolicy /\ bypass
  /\ Done(1) /\ ResolverRejected(1) /\ calls[1].outcome.kind = "rejection"
  /\ Count(1, "permissionResolver") = 1

====
